---- MODULE Spec2Model ----
(***************************************************************************)
(* Event-stream pipeline of the Real-Time Multi-Agent Governance services: *)
(* the agent dispatcher (agent_manager.start_manager) with its agents,     *)
(* the policy evaluator (governance_engine.governance_loop) and the        *)
(* execution applier (execution_engine.execution_loop), communicating      *)
(* through Redis streams; the replay player that feeds the tick stream     *)
(* (replay_player.run_player); and the gateway (api.main): its listener    *)
(* on the streams and the connection manager of its WebSocket clients.     *)
(*                                                                         *)
(* A stream is a sequence of entries; the id of an entry is its index, so  *)
(* ids are strictly increasing.  XREAD follows Redis: with the cursor "$"  *)
(* it returns only entries appended while the call is blocked; with an id  *)
(* it returns at once the entries after that id, or blocks until the next  *)
(* XADD, which then serves the blocked reader with the new entry.          *)
(***************************************************************************)
EXTENDS Integers, Sequences, FiniteSets, TLC

VARIABLES
    market_ticks,       \* stream "market.ticks"
    agent_proposals,    \* stream "agent.proposals"
    execution_actions,  \* stream "execution.actions"
    audit_events,       \* stream "audit.events"
    exec_log,           \* lines of the execution log file (LOGFILE)
    mgr_pc, mgr_last_id, mgr_resp,   \* start_manager: position, cursor, batch left
    mgr_gather,         \* tasks awaited by the pending asyncio.gather
    tasks,              \* on_tick tasks created so far, with their state
    gov_pc, gov_last_id, gov_resp,   \* governance_loop
    exec_pc, exec_last_id, exec_resp,\* execution_loop
    faults,             \* substrate errors raised so far
    first_read,         \* evaluator: <<length of its topic at its first XREAD>>
    api_pc, api_resp,   \* redis_listener: position, batch left
    last_ids,           \* redis_listener: the cursors it has set, oldest first
    active,             \* ConnectionManager.active
    ws_state,           \* per WebSocket: new, accepted, open or closed
    recv,               \* per WebSocket: the messages its client has received
    bc_pc, bc_message,  \* ConnectionManager.broadcast: position, message
    bc_snapshot,        \* list(self.active) of the pass
    bc_to_remove,       \* to_remove
    feed_pc,            \* run_player: position
    feed_file,          \* rows of the input file, in file order
    feed_df,            \* run_player: rows of the data frame not yet published
    feed_prev_ts,       \* run_player: prev_ts (<<>> is None)
    feed_realtime,      \* run_player: the realtime flag
    agents,             \* table agents: the agent_id of every row
    agent_reputation,   \* table agent_reputation: rows (agent_id, score)
    reputation_history, \* table reputation_history, oldest row first
    db_pc, db_call,     \* per caller of db_client: position, call frame
    db_calls            \* calls of db_client started so far

vars == <<market_ticks, agent_proposals, execution_actions, audit_events,
          exec_log, mgr_pc, mgr_last_id, mgr_resp, mgr_gather, tasks,
          gov_pc, gov_last_id, gov_resp, exec_pc, exec_last_id, exec_resp,
          faults, first_read, api_pc, api_resp, last_ids, active, ws_state,
          recv, bc_pc, bc_message, bc_snapshot, bc_to_remove, feed_pc,
          feed_file, feed_df, feed_prev_ts, feed_realtime, agents,
          agent_reputation, reputation_history, db_pc, db_call, db_calls>>

streamVars == <<market_ticks, agent_proposals, execution_actions, audit_events>>
mgrVars == <<mgr_pc, mgr_last_id, mgr_resp, mgr_gather, tasks>>
govVars == <<gov_pc, gov_last_id, gov_resp>>
execVars == <<exec_pc, exec_last_id, exec_resp>>
apiVars == <<api_pc, api_resp, last_ids>>
connVars == <<active, ws_state, recv, bc_pc, bc_message, bc_snapshot,
              bc_to_remove>>
feedVars == <<feed_pc, feed_file, feed_df, feed_prev_ts, feed_realtime>>
dbVars == <<agents, agent_reputation, reputation_history, db_pc, db_call,
            db_calls>>
\* What the gateway never touches but the streams and the fault count.
pipeVars == <<exec_log, mgrVars, govVars, execVars, first_read, feedVars,
              dbVars>>
\* What the dispatcher, the evaluator and the applier never touch.
sideVars == <<apiVars, connVars, feedVars, dbVars>>

(* ------------------------------ bounds --------------------------------- *)
MaxTicks == 3
MaxProposals == 3
MaxActions == 3
MaxFaults == 1
MaxTasks == 4
MaxSockets == 3
MaxLog == 4
MaxRows == 3
MaxBroadcasts == 1

(* --------------------------- program constants ------------------------- *)
XREAD_COUNT == 10
MARKET_PRIORITY == 5
RISK_PRIORITY == 10

\* The cursor "$" (only entries appended after the read was issued).
Dollar == -1
\* Python None: the result of dict.get on a missing key.
NoneVal == "None"
\* A key that is absent from a JSON object read with d["key"].
NoKey == 0

(* ------------------------------ helpers -------------------------------- *)
\* The WebSocket objects the gateway may be handed.
WebSockets == 1..MaxSockets

SeqFromTo(a, b) == [i \in 1..(IF b >= a THEN b - a + 1 ELSE 0) |-> a + i - 1]

Min(a, b) == IF a <= b THEN a ELSE b

\* Mutant of XRead: the entry at the cursor is returned again.
XRead_Inclusive(stream, last_id) ==
    IF last_id = Dollar
    THEN <<>>
    ELSE SeqFromTo(last_id, Min(Len(stream), last_id + XREAD_COUNT))

\* r.xread(streams={stream: last_id}, block=2000, count=10): the ids returned
\* without blocking; <<>> when the call has to block.
XRead(stream, last_id) ==
    IF last_id = Dollar
    THEN <<>>
    ELSE SeqFromTo(last_id + 1, Min(Len(stream), last_id + XREAD_COUNT))

\* Position of the for loop after the entry at the head of resp is finished.
AfterEntry(resp) == IF Tail(resp) = <<>> THEN "poll" ELSE "process"

\* The evaluator issues an XREAD on stream; at its first one the server
\* resolves "$" to the last entry the stream holds at that moment.
FirstRead(stream) ==
    IF first_read = <<>> THEN <<Len(stream)>> ELSE first_read

(* --------------------------- policy evaluator -------------------------- *)
\* Mutants of ActionStatus.
ActionStatus_Inverted(proposal) ==
    IF proposal.type = "trade" THEN "rejected" ELSE "applied"

ActionStatus_NotHalt(proposal) ==
    IF proposal.type # "halt" THEN "applied" ELSE "rejected"

ActionStatus_ByPriority(proposal) ==
    IF proposal.type = "trade" /\ proposal.priority <= MARKET_PRIORITY
    THEN "applied" ELSE "rejected"

\* if proposal.get("type") == "trade": status "applied" else "rejected"
ActionStatus(proposal) ==
    IF proposal.type = "trade" THEN "applied" ELSE "rejected"

ActionResult(proposal) ==
    IF proposal.type = "trade" THEN "executed" ELSE "unsupported"

AuditName(proposal) ==
    IF proposal.type = "trade" THEN "proposal_approved" ELSE "proposal_rejected"

\* Mutant of MakeAction: every action gets an id of its own.
MakeAction_OwnId(proposal) ==
    [fmt |-> "ok",
     action_id |-> 100 + Len(execution_actions),
     proposal_id |-> proposal.proposal_id,
     timestamp |-> proposal.timestamp,
     status |-> ActionStatus(proposal),
     result |-> ActionResult(proposal)]

MakeAction(proposal) ==
    [fmt |-> "ok",
     action_id |-> proposal.proposal_id,
     proposal_id |-> proposal.proposal_id,
     timestamp |-> proposal.timestamp,
     status |-> ActionStatus(proposal),
     result |-> ActionResult(proposal)]

GovAuditEvent(proposal) == [event |-> AuditName(proposal), proposal |-> proposal]

ExecAuditEvent(action) == [event |-> "action_executed", action |-> action]

\* A blocked XREAD of the execution applier is served by the XADD.
WakeExec(id) ==
    IF exec_pc = "blocked"
    THEN exec_pc' = "process" /\ exec_resp' = <<id>> /\ UNCHANGED exec_last_id
    ELSE UNCHANGED execVars

\* A blocked XREAD of the policy evaluator is served by the XADD.
WakeGov(id) ==
    IF gov_pc = "blocked"
    THEN gov_pc' = "process" /\ gov_resp' = <<id>> /\ UNCHANGED gov_last_id
    ELSE UNCHANGED govVars

\* await r.xadd(EXEC_STREAM, {"data": json.dumps(action)})
XAddAction(action) ==
    /\ execution_actions' = Append(execution_actions, action)
    /\ WakeExec(Len(execution_actions) + 1)

\* resp = await r.xread(streams={PROPOSAL_STREAM: last_id}, ...)
GovRead ==
    /\ gov_pc = "poll"
    /\ LET r == XRead(agent_proposals, gov_last_id) IN
         /\ gov_resp' = r
         /\ gov_pc' = IF r = <<>> THEN "blocked" ELSE "process"
    /\ UNCHANGED <<gov_last_id, streamVars, exec_log, mgrVars, execVars, faults,
                   sideVars>>
    /\ first_read' = FirstRead(agent_proposals)

\* The blocking read times out: if not resp: sleep(0.01); continue
GovTimeout ==
    /\ gov_pc = "blocked"
    /\ gov_pc' = "poll"
    /\ UNCHANGED <<gov_last_id, gov_resp, streamVars, exec_log, mgrVars,
                   execVars, faults, first_read, sideVars>>

\* xread raises: except Exception
GovReadError ==
    /\ gov_pc = "poll"
    /\ faults < MaxFaults
    /\ faults' = faults + 1
    /\ gov_pc' = "backoff"
    /\ gov_resp' = <<>>
    /\ UNCHANGED <<gov_last_id, streamVars, exec_log, mgrVars, execVars,
                   first_read, sideVars>>

\* if b"data" not in fields: continue
GovSkipNoData ==
    /\ gov_pc = "process"
    /\ agent_proposals[Head(gov_resp)].fmt = "nodata"
    /\ gov_pc' = AfterEntry(gov_resp)
    /\ gov_resp' = Tail(gov_resp)
    /\ UNCHANGED <<gov_last_id, streamVars, exec_log, mgrVars, execVars, faults,
                   first_read, sideVars>>

\* json.loads(raw) raises, or proposal["proposal_id"] raises KeyError
GovDecodeError ==
    /\ gov_pc = "process"
    /\ LET p == agent_proposals[Head(gov_resp)] IN
         \/ p.fmt = "badjson"
         \/ p.fmt = "ok" /\ p.proposal_id = NoKey
    /\ gov_pc' = "backoff"
    /\ gov_resp' = <<>>
    /\ UNCHANGED <<gov_last_id, streamVars, exec_log, mgrVars, execVars, faults,
                   first_read, sideVars>>

\* Build the action and append it to the action stream.
GovEmitAction ==
    /\ gov_pc = "process"
    /\ LET p == agent_proposals[Head(gov_resp)] IN
         /\ p.fmt = "ok" /\ p.proposal_id # NoKey
         /\ XAddAction(MakeAction(p))
    /\ gov_pc' = "audit"
    /\ UNCHANGED <<gov_last_id, gov_resp, market_ticks, agent_proposals,
                   audit_events, exec_log, mgrVars, faults,
                   first_read, sideVars>>

\* The xadd of the action raises.
GovEmitActionError ==
    /\ gov_pc = "process"
    /\ LET p == agent_proposals[Head(gov_resp)] IN
         p.fmt = "ok" /\ p.proposal_id # NoKey
    /\ faults < MaxFaults
    /\ faults' = faults + 1
    /\ gov_pc' = "backoff"
    /\ gov_resp' = <<>>
    /\ UNCHANGED <<gov_last_id, streamVars, exec_log, mgrVars, execVars,
                   first_read, sideVars>>

\* Mutant of GovEmitAudit: the cursor moves at the end of the batch only.
GovEmitAudit_PerBatch ==
    /\ gov_pc = "audit"
    /\ audit_events' =
          Append(audit_events, GovAuditEvent(agent_proposals[Head(gov_resp)]))
    /\ gov_last_id' = IF Tail(gov_resp) = <<>> THEN gov_resp[Len(gov_resp)]
                      ELSE gov_last_id
    /\ gov_pc' = AfterEntry(gov_resp)
    /\ gov_resp' = Tail(gov_resp)
    /\ UNCHANGED <<market_ticks, agent_proposals, execution_actions, exec_log,
                   mgrVars, execVars, faults, first_read, sideVars>>

\* Append the audit event, then last_id = entry_id.
GovEmitAudit ==
    /\ gov_pc = "audit"
    /\ audit_events' =
          Append(audit_events, GovAuditEvent(agent_proposals[Head(gov_resp)]))
    /\ gov_last_id' = Head(gov_resp)
    /\ gov_pc' = AfterEntry(gov_resp)
    /\ gov_resp' = Tail(gov_resp)
    /\ UNCHANGED <<market_ticks, agent_proposals, execution_actions, exec_log,
                   mgrVars, execVars, faults, first_read, sideVars>>

\* The xadd of the audit event raises.
GovEmitAuditError ==
    /\ gov_pc = "audit"
    /\ faults < MaxFaults
    /\ faults' = faults + 1
    /\ gov_pc' = "backoff"
    /\ gov_resp' = <<>>
    /\ UNCHANGED <<gov_last_id, streamVars, exec_log, mgrVars, execVars,
                   first_read, sideVars>>

\* logger.exception(...); await asyncio.sleep(1)
GovBackoff ==
    /\ gov_pc = "backoff"
    /\ gov_pc' = "poll"
    /\ UNCHANGED <<gov_last_id, gov_resp, streamVars, exec_log, mgrVars,
                   execVars, faults, first_read, sideVars>>

(* --------------------------- execution applier ------------------------- *)
ExecRead ==
    /\ exec_pc = "poll"
    /\ LET r == XRead(execution_actions, exec_last_id) IN
         /\ exec_resp' = r
         /\ exec_pc' = IF r = <<>> THEN "blocked" ELSE "process"
    /\ UNCHANGED <<exec_last_id, streamVars, exec_log, mgrVars, govVars, faults,
                   first_read, sideVars>>

ExecTimeout ==
    /\ exec_pc = "blocked"
    /\ exec_pc' = "poll"
    /\ UNCHANGED <<exec_last_id, exec_resp, streamVars, exec_log, mgrVars,
                   govVars, faults, first_read, sideVars>>

ExecReadError ==
    /\ exec_pc = "poll"
    /\ faults < MaxFaults
    /\ faults' = faults + 1
    /\ exec_pc' = "backoff"
    /\ exec_resp' = <<>>
    /\ UNCHANGED <<exec_last_id, streamVars, exec_log, mgrVars, govVars,
                   first_read, sideVars>>

\* if b"data" not in fields: continue
ExecSkipNoData ==
    /\ exec_pc = "process"
    /\ execution_actions[Head(exec_resp)].fmt = "nodata"
    /\ exec_pc' = AfterEntry(exec_resp)
    /\ exec_resp' = Tail(exec_resp)
    /\ UNCHANGED <<exec_last_id, streamVars, exec_log, mgrVars, govVars, faults,
                   first_read, sideVars>>

\* json.loads(raw) raises
ExecDecodeError ==
    /\ exec_pc = "process"
    /\ execution_actions[Head(exec_resp)].fmt = "badjson"
    /\ exec_pc' = "backoff"
    /\ exec_resp' = <<>>
    /\ UNCHANGED <<exec_last_id, streamVars, exec_log, mgrVars, govVars, faults,
                   first_read, sideVars>>

\* Mutant of WriteLog: the line is not written.
WriteLog_Skipped(action) == exec_log

\* Mutant of WriteLog: an action whose line is in the log is not applied again.
WriteLog_Once(action) ==
    IF \E n \in 1..Len(exec_log) : exec_log[n] = action
    THEN exec_log
    ELSE Append(exec_log, action)

\* with open(LOGFILE, "a") as f: f.write(json.dumps(action) + "\n")
WriteLog(action) == Append(exec_log, action)

\* json.loads succeeds on every JSON value, an object or not, and the value
\* is written to the log.  A non-object entry is redelivered without end
\* (ExecEmitAuditThenRaise): the model follows it up to MaxLog lines.
ExecApply ==
    /\ exec_pc = "process"
    /\ execution_actions[Head(exec_resp)].fmt \in {"ok", "nonobject"}
    /\ execution_actions[Head(exec_resp)].fmt = "nonobject"
          => Len(exec_log) < MaxLog
    /\ exec_log' = WriteLog(execution_actions[Head(exec_resp)])
    /\ exec_pc' = "audit"
    /\ UNCHANGED <<exec_last_id, exec_resp, streamVars, mgrVars, govVars, faults,
                   first_read, sideVars>>

\* Append the audit event, log action.get("action_id"), last_id = entry_id.
ExecEmitAudit ==
    /\ exec_pc = "audit"
    /\ execution_actions[Head(exec_resp)].fmt = "ok"
    /\ audit_events' =
          Append(audit_events, ExecAuditEvent(execution_actions[Head(exec_resp)]))
    /\ exec_last_id' = Head(exec_resp)
    /\ exec_pc' = AfterEntry(exec_resp)
    /\ exec_resp' = Tail(exec_resp)
    /\ UNCHANGED <<market_ticks, agent_proposals, execution_actions, exec_log,
                   mgrVars, govVars, faults, first_read, sideVars>>

\* The action is a JSON value without a get method (a list, a string, a
\* number): the audit event is appended, then action.get raises before
\* last_id = entry_id.
ExecEmitAuditThenRaise ==
    /\ exec_pc = "audit"
    /\ execution_actions[Head(exec_resp)].fmt = "nonobject"
    /\ audit_events' =
          Append(audit_events, ExecAuditEvent(execution_actions[Head(exec_resp)]))
    /\ exec_pc' = "backoff"
    /\ exec_resp' = <<>>
    /\ UNCHANGED <<exec_last_id, market_ticks, agent_proposals,
                   execution_actions, exec_log, mgrVars, govVars, faults,
                   first_read, sideVars>>

\* The xadd of the audit event raises.
ExecEmitAuditError ==
    /\ exec_pc = "audit"
    /\ faults < MaxFaults
    /\ faults' = faults + 1
    /\ exec_pc' = "backoff"
    /\ exec_resp' = <<>>
    /\ UNCHANGED <<exec_last_id, streamVars, exec_log, mgrVars, govVars,
                   first_read, sideVars>>

ExecBackoff ==
    /\ exec_pc = "backoff"
    /\ exec_pc' = "poll"
    /\ UNCHANGED <<exec_last_id, exec_resp, streamVars, exec_log, mgrVars,
                   govVars, faults, first_read, sideVars>>

(* ------------------------------- agents -------------------------------- *)
\* int(time.time() * 1000): the wall clock, which advances with every append.
Now == 1000 + Len(market_ticks) + Len(agent_proposals)

\* await self.r.xadd(PROPOSAL_STREAM, {"data": json.dumps(proposal)})
XAddProposal(proposal) ==
    /\ agent_proposals' = Append(agent_proposals, proposal)
    /\ WakeGov(Len(agent_proposals) + 1)

\* MarketAgent.on_tick builds a "trade" proposal for every tick.
MarketProposal(tick) ==
    [fmt |-> "ok",
     proposal_id |-> Len(agent_proposals) + 1,
     agent_id |-> "agent.market.1",
     timestamp |-> Now,
     type |-> "trade",
     payload |-> [symbol |-> tick.symbol, side |-> "buy",
                  price_kind |-> tick.price_kind, price |-> tick.price],
     priority |-> MARKET_PRIORITY]

\* Mutant of RiskTriggers: the test price <= 0 on any price that is present.
RiskTriggers_LessEqual(tick) == tick.price_kind = "num" /\ tick.price <= 0

\* if price and price < 0  (None and 0 are falsy)
RiskTriggers(tick) ==
    tick.price_kind = "num" /\ tick.price # 0 /\ tick.price < 0

\* price < 0 raises TypeError when price is a non-empty string
RiskRaises(tick) == tick.price_kind = "str"

RiskProposal(tick) ==
    [fmt |-> "ok",
     proposal_id |-> Len(agent_proposals) + 1,
     agent_id |-> "agent.risk.1",
     timestamp |-> Now,
     type |-> "halt",
     payload |-> [reason |-> "price anomaly", symbol |-> tick.symbol],
     priority |-> RISK_PRIORITY]

Agents == <<"MarketAgent", "RiskAgent">>

SetTask(i, st) == tasks' = [tasks EXCEPT ![i].state = st]

\* MarketAgent.on_tick runs to completion.
MarketOnTick(i) ==
    /\ i \in 1..Len(tasks)
    /\ tasks[i].agent = "MarketAgent" /\ tasks[i].state = "pending"
    /\ XAddProposal(MarketProposal(market_ticks[tasks[i].entry]))
    /\ SetTask(i, "done")
    /\ UNCHANGED <<market_ticks, execution_actions, audit_events, exec_log,
                   mgr_pc, mgr_last_id, mgr_resp, mgr_gather, execVars, faults,
                   first_read, sideVars>>

\* RiskAgent.on_tick runs to completion.
RiskOnTick(i) ==
    /\ i \in 1..Len(tasks)
    /\ tasks[i].agent = "RiskAgent" /\ tasks[i].state = "pending"
    /\ LET tick == market_ticks[tasks[i].entry] IN
         /\ ~RiskRaises(tick)
         /\ IF RiskTriggers(tick)
            THEN XAddProposal(RiskProposal(tick))
            ELSE UNCHANGED <<agent_proposals, govVars>>
    /\ SetTask(i, "done")
    /\ UNCHANGED <<market_ticks, execution_actions, audit_events, exec_log,
                   mgr_pc, mgr_last_id, mgr_resp, mgr_gather, execVars, faults,
                   first_read, sideVars>>

\* RiskAgent.on_tick raises TypeError on the comparison.
RiskOnTickRaises(i) ==
    /\ i \in 1..Len(tasks)
    /\ tasks[i].agent = "RiskAgent" /\ tasks[i].state = "pending"
    /\ RiskRaises(market_ticks[tasks[i].entry])
    /\ SetTask(i, "raised")
    /\ UNCHANGED <<streamVars, exec_log, mgr_pc, mgr_last_id, mgr_resp,
                   mgr_gather, govVars, execVars, faults,
                   first_read, sideVars>>

\* The xadd of an agent raises.
OnTickXAddError(i) ==
    /\ i \in 1..Len(tasks)
    /\ tasks[i].state = "pending"
    /\ \/ tasks[i].agent = "MarketAgent"
       \/ tasks[i].agent = "RiskAgent"
            /\ RiskTriggers(market_ticks[tasks[i].entry])
    /\ faults < MaxFaults
    /\ faults' = faults + 1
    /\ SetTask(i, "raised")
    /\ UNCHANGED <<streamVars, exec_log, mgr_pc, mgr_last_id, mgr_resp,
                   mgr_gather, govVars, execVars, first_read, sideVars>>

(* --------------------------- agent dispatcher -------------------------- *)
MgrRead ==
    /\ mgr_pc = "poll"
    /\ LET r == XRead(market_ticks, mgr_last_id) IN
         /\ mgr_resp' = r
         /\ mgr_pc' = IF r = <<>> THEN "blocked" ELSE "process"
    /\ UNCHANGED <<mgr_last_id, mgr_gather, tasks, streamVars, exec_log,
                   govVars, execVars, faults, first_read, sideVars>>

MgrTimeout ==
    /\ mgr_pc = "blocked"
    /\ mgr_pc' = "poll"
    /\ UNCHANGED <<mgr_last_id, mgr_resp, mgr_gather, tasks, streamVars,
                   exec_log, govVars, execVars, faults, first_read, sideVars>>

MgrReadError ==
    /\ mgr_pc = "poll"
    /\ faults < MaxFaults
    /\ faults' = faults + 1
    /\ mgr_pc' = "backoff"
    /\ mgr_resp' = <<>>
    /\ UNCHANGED <<mgr_last_id, mgr_gather, tasks, streamVars, exec_log,
                   govVars, execVars, first_read, sideVars>>

\* No b"data" field: nothing is dispatched; last_id = entry_id
MgrNoData ==
    /\ mgr_pc = "process"
    /\ market_ticks[Head(mgr_resp)].fmt = "nodata"
    /\ mgr_last_id' = Head(mgr_resp)
    /\ mgr_pc' = AfterEntry(mgr_resp)
    /\ mgr_resp' = Tail(mgr_resp)
    /\ UNCHANGED <<mgr_gather, tasks, streamVars, exec_log, govVars, execVars,
                   faults, first_read, sideVars>>

\* except Exception: logger.warning("Bad tick JSON"); continue
\* (the continue skips last_id = entry_id)
MgrBadJson ==
    /\ mgr_pc = "process"
    /\ market_ticks[Head(mgr_resp)].fmt = "badjson"
    /\ mgr_pc' = AfterEntry(mgr_resp)
    /\ mgr_resp' = Tail(mgr_resp)
    /\ UNCHANGED <<mgr_last_id, mgr_gather, tasks, streamVars, exec_log, govVars, execVars,
                   faults, first_read, sideVars>>

\* asyncio.gather(*[a.on_tick(doc) for a in agents]): one task per agent
MgrDispatch ==
    /\ mgr_pc = "process"
    /\ market_ticks[Head(mgr_resp)].fmt = "ok"
    /\ Len(tasks) + Len(Agents) <= MaxTasks
    /\ tasks' = tasks \o [k \in 1..Len(Agents) |->
                            [agent |-> Agents[k], entry |-> Head(mgr_resp),
                             state |-> "pending"]]
    /\ mgr_gather' = (Len(tasks) + 1)..(Len(tasks) + Len(Agents))
    /\ mgr_pc' = "gather"
    /\ UNCHANGED <<mgr_last_id, mgr_resp, streamVars, exec_log, govVars,
                   execVars, faults, first_read, sideVars>>

\* gather returns when every task is done; then last_id = entry_id
MgrGatherDone ==
    /\ mgr_pc = "gather"
    /\ \A i \in mgr_gather : tasks[i].state = "done"
    /\ mgr_last_id' = Head(mgr_resp)
    /\ mgr_pc' = AfterEntry(mgr_resp)
    /\ mgr_resp' = Tail(mgr_resp)
    /\ mgr_gather' = {}
    /\ UNCHANGED <<tasks, streamVars, exec_log, govVars, execVars, faults,
                   first_read, sideVars>>

\* gather re-raises the first exception of a task (return_exceptions is
\* False); the other tasks are not cancelled and keep running.
MgrGatherRaises ==
    /\ mgr_pc = "gather"
    /\ \E i \in mgr_gather : tasks[i].state = "raised"
    /\ mgr_pc' = "backoff"
    /\ mgr_resp' = <<>>
    /\ mgr_gather' = {}
    /\ UNCHANGED <<mgr_last_id, tasks, streamVars, exec_log, govVars, execVars,
                   faults, first_read, sideVars>>

MgrBackoff ==
    /\ mgr_pc = "backoff"
    /\ mgr_pc' = "poll"
    /\ UNCHANGED <<mgr_last_id, mgr_resp, mgr_gather, tasks, streamVars,
                   exec_log, govVars, execVars, faults, first_read, sideVars>>

(* --------------------- producers of the tick stream -------------------- *)
Tick(sym, kind, price) ==
    [fmt |-> "ok", symbol |-> sym, price_kind |-> kind, price |-> price,
     source |-> "replay"]

\* Payloads a producer can append to "market.ticks": ticks with a negative, a
\* zero and a positive price, a tick whose price is a string, and malformed
\* payloads.
TickInputs ==
    { Tick("X", "num", -1), Tick("Y", "num", 0), Tick("X", "num", 1),
      Tick("X", "str", 0),
      [fmt |-> "badjson"],
      [fmt |-> "nodata"] }

\* A blocked XREAD of the dispatcher is served by the XADD.
WakeMgr(id) ==
    IF mgr_pc = "blocked"
    THEN mgr_pc' = "process" /\ mgr_resp' = <<id>>
         /\ UNCHANGED <<mgr_last_id, mgr_gather, tasks>>
    ELSE UNCHANGED mgrVars

AppendTick(d) ==
    /\ Len(market_ticks) < MaxTicks
    /\ market_ticks' = Append(market_ticks, d)
    /\ WakeMgr(Len(market_ticks) + 1)
    /\ UNCHANGED <<agent_proposals, execution_actions, audit_events, exec_log,
                   govVars, execVars, faults, first_read, sideVars>>

(* ------------------- producers of the proposal stream ------------------ *)
Proposal(t, a, prio, ts, pid, payload) ==
    [fmt |-> "ok", proposal_id |-> pid, agent_id |-> a, timestamp |-> ts,
     type |-> t, payload |-> payload, priority |-> prio]

\* Payloads a producer can append to "agent.proposals" (proposal_id filled in
\* on append): the two agents' proposals, the same types from other senders,
\* a proposal without type, one without proposal_id, and malformed payloads.
ProposalInputs ==
    { Proposal("trade", "agent.market.1", MARKET_PRIORITY, 1000, 1, "buy"),
      Proposal("halt", "agent.risk.1", RISK_PRIORITY, 2000, 1, "anomaly"),
      Proposal("trade", "agent.risk.1", RISK_PRIORITY, 3000, 1, "sell"),
      Proposal(NoneVal, "agent.market.1", MARKET_PRIORITY, 1000, 1, "buy"),
      Proposal("trade", "agent.market.1", MARKET_PRIORITY, 1000, NoKey, "buy"),
      [fmt |-> "badjson"],
      [fmt |-> "nodata"] }

\* The proposals MarketAgent and RiskAgent append.
AgentProposalInputs ==
    { Proposal("trade", "agent.market.1", MARKET_PRIORITY, 1000, 1, "buy"),
      Proposal("halt", "agent.risk.1", RISK_PRIORITY, 2000, 1, "anomaly") }

\* uuid4: a fresh proposal id; here the id of the entry it is appended as.
FreshProposal(d) ==
    IF d.fmt = "ok" /\ d.proposal_id # NoKey
    THEN [d EXCEPT !.proposal_id = Len(agent_proposals) + 1]
    ELSE d

AppendProposal(d) ==
    /\ Len(agent_proposals) < MaxProposals
    /\ agent_proposals' = Append(agent_proposals, FreshProposal(d))
    /\ WakeGov(Len(agent_proposals) + 1)
    /\ UNCHANGED <<market_ticks, execution_actions, audit_events, exec_log,
                   mgrVars, execVars, faults, first_read, sideVars>>

\* Entries a producer can append to "execution.actions": the evaluator's two
\* kinds of Action and malformed payloads ("nonobject": data is JSON but not
\* an object).
ActionInputs ==
    { MakeAction(Proposal("trade", "agent.market.1", MARKET_PRIORITY, 1000, 1, "buy")),
      MakeAction(Proposal("halt", "agent.risk.1", RISK_PRIORITY, 2000, 2, "anomaly")),
      [fmt |-> "nonobject"],
      [fmt |-> "badjson"],
      [fmt |-> "nodata"] }

AppendAction(d) ==
    /\ Len(execution_actions) < MaxActions
    /\ execution_actions' = Append(execution_actions, d)
    /\ WakeExec(Len(execution_actions) + 1)
    /\ UNCHANGED <<market_ticks, agent_proposals, audit_events, exec_log,
                   mgrVars, govVars, faults, first_read, sideVars>>

(* ------------------------- connection manager ------------------------- *)
\* Mutant of Disconnect: a connection that is not registered is registered.
Disconnect_Toggle(set, ws) ==
    IF ws \in set THEN set \ {ws} ELSE set \cup {ws}

\* ConnectionManager.disconnect: self.active.discard(ws)
Disconnect(set, ws) == set \ {ws}

\* for ws in to_remove: self.disconnect(ws)
RECURSIVE DisconnectEach(_, _)
DisconnectEach(set, to_remove) ==
    IF to_remove = {} THEN set
    ELSE LET ws == CHOOSE w \in to_remove : TRUE IN
           DisconnectEach(Disconnect(set, ws), to_remove \ {ws})

\* websocket_stream is entered for a new client: manager.connect awaits
\* ws.accept().
HandlerConnect(ws) ==
    /\ ws_state[ws] = "new"
    /\ ws_state' = [ws_state EXCEPT ![ws] = "accepting"]
    /\ UNCHANGED <<active, recv, bc_pc, bc_message, bc_snapshot, bc_to_remove,
                   streamVars, faults, pipeVars, apiVars>>

\* accept has returned: self.active.add(ws); the handler sleeps.
ConnectAdd(ws) ==
    /\ ws_state[ws] = "accepting"
    /\ ws_state' = [ws_state EXCEPT ![ws] = "open"]
    /\ active' = active \cup {ws}
    /\ UNCHANGED <<recv, bc_pc, bc_message, bc_snapshot, bc_to_remove,
                   streamVars, faults, pipeVars, apiVars>>

\* The client of an open connection goes away.
ClientClose(ws) ==
    /\ ws_state[ws] = "open"
    /\ ws_state' = [ws_state EXCEPT ![ws] = "closed"]
    /\ UNCHANGED <<active, recv, bc_pc, bc_message, bc_snapshot, bc_to_remove,
                   streamVars, faults, pipeVars, apiVars>>

\* except WebSocketDisconnect: manager.disconnect(ws); the handler returns.
HandlerDisconnect(ws) ==
    /\ ws_state[ws] = "closed"
    /\ ws_state' = [ws_state EXCEPT ![ws] = "gone"]
    /\ active' = Disconnect(active, ws)
    /\ UNCHANGED <<recv, bc_pc, bc_message, bc_snapshot, bc_to_remove,
                   streamVars, faults, pipeVars, apiVars>>

\* The connections of the snapshot the pass has been through: the message
\* was sent to them, or the send failed.
Visited ==
    {ws \in bc_snapshot :
        \/ ws \in bc_to_remove
        \/ \E n \in 1..Len(recv[ws]) : recv[ws][n] = bc_message}

\* broadcast(message) is called: to_remove = [], list(self.active) is built.
\* Messages are numbered in the order of the calls.
BroadcastStart ==
    /\ bc_pc = "idle"
    /\ bc_message < MaxBroadcasts
    /\ bc_message' = bc_message + 1
    /\ bc_snapshot' = active
    /\ bc_to_remove' = {}
    /\ bc_pc' = "send"
    /\ UNCHANGED <<active, ws_state, recv, streamVars, faults, pipeVars,
                   apiVars>>

\* await ws.send_text(message) to a connection that is open.
BroadcastSend(ws) ==
    /\ bc_pc = "send"
    /\ ws \in bc_snapshot \ Visited
    /\ ws_state[ws] = "open"
    /\ recv' = [recv EXCEPT ![ws] = Append(recv[ws], bc_message)]
    /\ UNCHANGED <<active, ws_state, bc_pc, bc_message, bc_snapshot,
                   bc_to_remove, streamVars, faults, pipeVars, apiVars>>

\* Mutant of BroadcastSendFails: the failed connection is removed at once.
BroadcastSendFails_RemoveNow(ws) ==
    /\ bc_pc = "send"
    /\ ws \in bc_snapshot \ Visited
    /\ ws_state[ws] # "open"
    /\ bc_to_remove' = bc_to_remove \cup {ws}
    /\ active' = Disconnect(active, ws)
    /\ UNCHANGED <<ws_state, recv, bc_pc, bc_message, bc_snapshot,
                   streamVars, faults, pipeVars, apiVars>>

\* Mutant of BroadcastSendFails: the exception leaves broadcast.
BroadcastSendFails_Raises(ws) ==
    /\ bc_pc = "send"
    /\ ws \in bc_snapshot \ Visited
    /\ ws_state[ws] # "open"
    /\ bc_pc' = "idle"
    /\ UNCHANGED <<active, ws_state, recv, bc_message, bc_snapshot,
                   bc_to_remove, streamVars, faults, pipeVars, apiVars>>

\* send_text to a connection whose client is gone raises:
\* except Exception: to_remove.append(ws)
BroadcastSendFails(ws) ==
    /\ bc_pc = "send"
    /\ ws \in bc_snapshot \ Visited
    /\ ws_state[ws] # "open"
    /\ bc_to_remove' = bc_to_remove \cup {ws}
    /\ UNCHANGED <<active, ws_state, recv, bc_pc, bc_message, bc_snapshot,
                   streamVars, faults, pipeVars, apiVars>>

\* The for loop is over: for ws in to_remove: self.disconnect(ws); return.
BroadcastEnd ==
    /\ bc_pc = "send"
    /\ bc_snapshot \ Visited = {}
    /\ active' = DisconnectEach(active, bc_to_remove)
    /\ bc_pc' = "idle"
    /\ UNCHANGED <<ws_state, recv, bc_message, bc_snapshot, bc_to_remove,
                   streamVars, faults, pipeVars, apiVars>>

(* --------------------------- gateway listener ------------------------- *)
SUBSCRIBE_STREAMS ==
    <<"market.ticks", "agent.proposals", "governance.votes",
      "execution.actions", "audit.events">>

\* The stream of a name; nothing in the repository appends to
\* "governance.votes".
StreamOf(name) ==
    CASE name = "market.ticks" -> market_ticks
      [] name = "agent.proposals" -> agent_proposals
      [] name = "execution.actions" -> execution_actions
      [] name = "audit.events" -> audit_events
      [] OTHER -> <<>>

\* The entries one stream contributes to the result of the listener's xread.
ApiEntries(name) ==
    LET ids == XRead(StreamOf(name), last_ids[name]) IN
      [i \in 1..Len(ids) |-> [stream |-> name, id |-> ids[i]]]

\* r.xread(streams=last_ids, block=2000, count=10) on call: the entries after
\* each cursor, stream by stream.
ApiXRead ==
    ApiEntries(SUBSCRIBE_STREAMS[1]) \o ApiEntries(SUBSCRIBE_STREAMS[2])
      \o ApiEntries(SUBSCRIBE_STREAMS[3]) \o ApiEntries(SUBSCRIBE_STREAMS[4])
      \o ApiEntries(SUBSCRIBE_STREAMS[5])

\* An XADD to a subscribed stream serves the listener blocked in xread.
WakeApi(name, id) ==
    IF api_pc = "blocked"
    THEN /\ api_pc' = "process"
         /\ api_resp' = <<[stream |-> name, id |-> id]>>
         /\ UNCHANGED last_ids
    ELSE UNCHANGED apiVars

\* last_ids = {s: "$" for s in SUBSCRIBE_STREAMS} before the loop.
ApiStart ==
    /\ api_pc = "poll" /\ api_resp = <<>>
    /\ last_ids =
          [name \in {SUBSCRIBE_STREAMS[i] : i \in 1..Len(SUBSCRIBE_STREAMS)}
              |-> Dollar]

\* resp = await r.xread(streams=last_ids, block=2000, count=10)
ApiRead ==
    /\ api_pc = "poll"
    /\ api_resp' = ApiXRead
    /\ api_pc' = IF ApiXRead = <<>> THEN "blocked" ELSE "process"
    /\ UNCHANGED <<last_ids, streamVars, faults, pipeVars, connVars>>

\* if not resp: await asyncio.sleep(0.01); continue
ApiTimeout ==
    /\ api_pc = "blocked"
    /\ api_pc' = "poll"
    /\ UNCHANGED <<api_resp, last_ids, streamVars, faults, pipeVars, connVars>>

\* xread raises: except Exception
ApiReadError ==
    /\ api_pc = "poll"
    /\ faults < MaxFaults
    /\ faults' = faults + 1
    /\ api_pc' = "backoff"
    /\ api_resp' = <<>>
    /\ UNCHANGED <<last_ids, streamVars, pipeVars, connVars>>

\* doc = {"stream": ..., "id": entry_id, "data": payload}: the client is
\* created with decode_responses=False, so entry_id is a bytes object and
\* json.dumps(doc) raises TypeError before manager.broadcast is called and
\* before last_ids[stream_name] = entry_id; the except clause of the loop
\* catches it.
ApiEntryRaises ==
    /\ api_pc = "process"
    /\ api_pc' = "backoff"
    /\ api_resp' = <<>>
    /\ UNCHANGED <<last_ids, streamVars, faults, pipeVars, connVars>>

\* await asyncio.sleep(1)
ApiBackoff ==
    /\ api_pc = "backoff"
    /\ api_pc' = "poll"
    /\ UNCHANGED <<api_resp, last_ids, streamVars, faults, pipeVars, connVars>>

\* What the services append to two of the subscribed streams.
GatewayInputs ==
    { [stream |-> "market.ticks", data |-> Tick("X", "num", 1)],
      [stream |-> "agent.proposals",
       data |-> Proposal("trade", "agent.market.1", MARKET_PRIORITY, 1000, 1,
                         "buy")] }

\* A service appends an entry to a subscribed stream.
Publish(in) ==
    /\ Len(StreamOf(in.stream)) < MaxTicks
    /\ market_ticks' = IF in.stream = "market.ticks"
                       THEN Append(market_ticks, in.data) ELSE market_ticks
    /\ agent_proposals' = IF in.stream = "agent.proposals"
                          THEN Append(agent_proposals, in.data)
                          ELSE agent_proposals
    /\ WakeApi(in.stream, Len(StreamOf(in.stream)) + 1)
    /\ UNCHANGED <<execution_actions, audit_events, faults, pipeVars, connVars>>

(* ---------------------------- replay player ---------------------------- *)
\* The values of the timestamp column, in tenths of a millisecond: a file may
\* hold fractions, which int() cuts off.
FileTimestamps == {9995, 10000, 10004, 10010}

\* int(tick["timestamp"]) of a non-negative number.
IntOf(tenths) == tenths \div 10

\* The input files: up to MaxRows rows; the size column tells the rows apart.
Files ==
    UNION { [1..n -> FileTimestamps] : n \in 0..MaxRows }

FileRows(f) == [i \in 1..Len(f) |-> [timestamp |-> f[i], size |-> i]]

\* The orders of the rows in which the timestamps do not decrease.
IsSorted(rows) ==
    \A i, j \in 1..Len(rows) :
        i < j => rows[i].timestamp <= rows[j].timestamp

Reorderings(rows) ==
    { [i \in 1..Len(rows) |-> rows[p[i]]] :
        p \in { q \in [1..Len(rows) -> 1..Len(rows)] :
                  \A i, j \in 1..Len(rows) : i # j => q[i] # q[j] } }

\* Mutant of SortValues: the rows stay in file order.
SortValues_FileOrder(rows) == {rows}

\* df.sort_values("timestamp"): rows of equal timestamp in any order.
SortValues(rows) == {r \in Reorderings(rows) : IsSorted(r)}

\* The record publish_tick builds from a row.
PublishedTick(row) ==
    [fmt |-> "ok", timestamp |-> IntOf(row.timestamp), symbol |-> "X",
     price_kind |-> "num", price |-> 1, size |-> row.size,
     side |-> "unknown", source |-> "replay"]

\* pd.read_csv, df = df.sort_values("timestamp"); an empty frame ends the run.
PlayerLoad ==
    /\ feed_pc = "load"
    /\ feed_df' \in SortValues(feed_file)
    /\ feed_pc' = IF feed_file = <<>> THEN "done" ELSE "row"
    /\ UNCHANGED <<feed_file, feed_prev_ts, feed_realtime, streamVars,
                   exec_log, mgrVars, govVars, execVars, faults, first_read,
                   apiVars, connVars, dbVars>>

\* realtime: await asyncio.sleep(delta / speed) before every row but the
\* first (speed > 0).
PlayerPace ==
    /\ feed_pc = "row"
    /\ feed_realtime /\ feed_prev_ts # <<>>
    /\ feed_pc' = "publish"
    /\ UNCHANGED <<feed_file, feed_df, feed_prev_ts, feed_realtime,
                   streamVars, exec_log, mgrVars, govVars, execVars, faults,
                   first_read, apiVars, connVars, dbVars>>

\* The loop is about to call publish_tick for the row at the head of df.
PlayerAtPublish ==
    \/ feed_pc = "publish"
    \/ feed_pc = "row" /\ (~feed_realtime \/ feed_prev_ts = <<>>)

\* await publish_tick(r, row); realtime: prev_ts = ts.
PlayerPublish ==
    /\ PlayerAtPublish
    /\ market_ticks' = Append(market_ticks, PublishedTick(Head(feed_df)))
    /\ WakeMgr(Len(market_ticks) + 1)
    /\ feed_df' = Tail(feed_df)
    /\ feed_prev_ts' = IF feed_realtime
                       THEN <<IntOf(Head(feed_df).timestamp)>>
                       ELSE feed_prev_ts
    /\ feed_pc' = IF ~feed_realtime THEN "sleep"
                  ELSE IF Tail(feed_df) = <<>> THEN "done" ELSE "row"
    /\ UNCHANGED <<feed_file, feed_realtime, agent_proposals,
                   execution_actions, audit_events, exec_log, govVars,
                   execVars, faults, first_read, apiVars, connVars, dbVars>>

\* The xadd of publish_tick raises: nothing catches it, run_player ends.
PlayerPublishError ==
    /\ PlayerAtPublish
    /\ faults < MaxFaults
    /\ faults' = faults + 1
    /\ feed_pc' = "raised"
    /\ UNCHANGED <<feed_file, feed_df, feed_prev_ts, feed_realtime,
                   streamVars, exec_log, mgrVars, govVars, execVars,
                   first_read, apiVars, connVars, dbVars>>

\* fixed interval: await asyncio.sleep(interval) after every row.
PlayerInterval ==
    /\ feed_pc = "sleep"
    /\ feed_pc' = IF feed_df = <<>> THEN "done" ELSE "row"
    /\ UNCHANGED <<feed_file, feed_df, feed_prev_ts, feed_realtime,
                   streamVars, exec_log, mgrVars, govVars, execVars, faults,
                   first_read, apiVars, connVars, dbVars>>

(* ------------------------------ db_client ------------------------------ *)

\* Agents the calls are made for, and the score deltas passed to them.
AgentIds == {"test_agent_1", "test_agent_2"}
Deltas == {-70, 10}

\* Coroutines that call db_client; each runs one call at a time.
Callers == {1, 2}

\* Calls of db_client started in a run.
MaxCalls == 4

\* The score of a new agent_reputation row.
INITIAL_SCORE == 100

\* A caller between two calls.
NoCall == [fn |-> "none", agent_id |-> "", score_delta |-> 0, current |-> <<>>]

Max(a, b) == IF a >= b THEN a ELSE b

\* The agent_reputation rows of an agent.
RowsOf(agent_id) ==
    {i \in DOMAIN agent_reputation : agent_reputation[i].agent_id = agent_id}

\* Mutant of GetAgentReputation: the query never finds a row.
GetAgentReputation_None(agent_id) == {<<>>}

\* get_agent_reputation: SELECT * ... WHERE agent_id, fetchone().  The results
\* the query can give: <<>> (None) without a row, else the score of a row.
GetAgentReputation(agent_id) ==
    IF RowsOf(agent_id) = {} THEN {<<>>}
    ELSE {<<agent_reputation[i].score>> : i \in RowsOf(agent_id)}

\* INSERT INTO agent_reputation (agent_id, score) VALUES (:agent_id, 100.0)
InsertReputation(agent_id) ==
    Append(agent_reputation, [agent_id |-> agent_id, score |-> INITIAL_SCORE])

\* UPDATE agent_reputation SET score = :new_score WHERE agent_id = :agent_id
SetScore(agent_id, new_score) ==
    [i \in DOMAIN agent_reputation |->
        IF agent_reputation[i].agent_id = agent_id
        THEN [agent_reputation[i] EXCEPT !.score = new_score]
        ELSE agent_reputation[i]]

\* Mutant of NewScore: the sum is stored as it is.
NewScore_NoFloor(old_score, score_delta) == old_score + score_delta

\* new_score = max(0, old_score + score_delta)
NewScore(old_score, score_delta) == Max(0, old_score + score_delta)

\* The call returns, or the exception of its session leaves it.
DbReturn(c) ==
    /\ db_pc' = [db_pc EXCEPT ![c] = "idle"]
    /\ db_call' = [db_call EXCEPT ![c] = NoCall]

\* update_agent_reputation is called; current = await get_agent_reputation().
UpdateGet(c, agent_id, score_delta) ==
    /\ db_pc[c] = "idle"
    /\ db_calls < MaxCalls
    /\ db_calls' = db_calls + 1
    /\ \E current \in GetAgentReputation(agent_id) :
          /\ db_call' = [db_call EXCEPT ![c] =
                            [fn |-> "update", agent_id |-> agent_id,
                             score_delta |-> score_delta, current |-> current]]
          /\ db_pc' = [db_pc EXCEPT ![c] =
                          IF current = <<>> THEN "init" ELSE "write"]
    /\ UNCHANGED <<agents, agent_reputation, reputation_history, streamVars,
                   exec_log, mgrVars, govVars, execVars, faults, first_read,
                   apiVars, connVars, feedVars>>

\* if not current: the reputation row is inserted in a session of its own and
\* current = {"score": 100.0}.  The table's constraints are not part of the
\* sources: where the agent has a row by now, the insert either adds a second
\* one or violates a constraint, and the session rolls back and raises.
UpdateInit(c) ==
    /\ db_pc[c] = "init"
    /\ db_call[c].fn = "update"
    /\ \/ /\ agent_reputation' = InsertReputation(db_call[c].agent_id)
          /\ db_call' = [db_call EXCEPT ![c].current = <<INITIAL_SCORE>>]
          /\ db_pc' = [db_pc EXCEPT ![c] = "write"]
       \/ /\ RowsOf(db_call[c].agent_id) # {}
          /\ DbReturn(c)
          /\ UNCHANGED agent_reputation
    /\ UNCHANGED <<agents, reputation_history, db_calls, streamVars,
                   exec_log, mgrVars, govVars, execVars, faults, first_read,
                   apiVars, connVars, feedVars>>

\* The UPDATE of the score, in a session of its own.
UpdateWrite(c) ==
    /\ db_pc[c] = "write"
    /\ agent_reputation' =
          SetScore(db_call[c].agent_id,
                   NewScore(db_call[c].current[1], db_call[c].score_delta))
    /\ db_pc' = [db_pc EXCEPT ![c] = "log"]
    /\ UNCHANGED <<agents, reputation_history, db_call, db_calls, streamVars,
                   exec_log, mgrVars, govVars, execVars, faults, first_read,
                   apiVars, connVars, feedVars>>

\* The INSERT into reputation_history, in a session of its own; the call
\* returns.
UpdateLog(c) ==
    /\ db_pc[c] = "log"
    /\ reputation_history' =
          Append(reputation_history,
                 [agent_id |-> db_call[c].agent_id,
                  old_score |-> db_call[c].current[1],
                  new_score |-> NewScore(db_call[c].current[1],
                                         db_call[c].score_delta),
                  delta |-> db_call[c].score_delta])
    /\ DbReturn(c)
    /\ UNCHANGED <<agents, agent_reputation, db_calls, streamVars,
                   exec_log, mgrVars, govVars, execVars, faults, first_read,
                   apiVars, connVars, feedVars>>

\* register_agent is called: INSERT INTO agents ... ON CONFLICT (agent_id) DO
\* UPDATE, in a session of its own.
RegisterUpsert(c, agent_id) ==
    /\ db_pc[c] = "idle"
    /\ db_calls < MaxCalls
    /\ db_calls' = db_calls + 1
    /\ agents' = agents \cup {agent_id}
    /\ db_call' = [db_call EXCEPT ![c] =
                      [fn |-> "register", agent_id |-> agent_id,
                       score_delta |-> 0, current |-> <<>>]]
    /\ db_pc' = [db_pc EXCEPT ![c] = "get"]
    /\ UNCHANGED <<agent_reputation, reputation_history, streamVars,
                   exec_log, mgrVars, govVars, execVars, faults, first_read,
                   apiVars, connVars, feedVars>>

\* rep = await get_agent_reputation(agent_id); with a row the call returns.
RegisterGet(c) ==
    /\ db_pc[c] = "get"
    /\ \E rep \in GetAgentReputation(db_call[c].agent_id) :
          IF rep = <<>>
          THEN /\ db_pc' = [db_pc EXCEPT ![c] = "init"]
               /\ UNCHANGED db_call
          ELSE DbReturn(c)
    /\ UNCHANGED <<agents, agent_reputation, reputation_history, db_calls,
                   streamVars, exec_log, mgrVars, govVars, execVars, faults,
                   first_read, apiVars, connVars, feedVars>>

\* if not rep: the reputation row is inserted in a session of its own and the
\* call returns; the outcomes of the insert are those of UpdateInit.
RegisterInit(c) ==
    /\ db_pc[c] = "init"
    /\ db_call[c].fn = "register"
    /\ \/ agent_reputation' = InsertReputation(db_call[c].agent_id)
       \/ /\ RowsOf(db_call[c].agent_id) # {}
          /\ UNCHANGED agent_reputation
    /\ DbReturn(c)
    /\ UNCHANGED <<agents, reputation_history, db_calls, streamVars,
                   exec_log, mgrVars, govVars, execVars, faults, first_read,
                   apiVars, connVars, feedVars>>

\* A step of caller c.
DbStep(c) ==
    \/ \E agent_id \in AgentIds :
          \/ \E score_delta \in Deltas : UpdateGet(c, agent_id, score_delta)
          \/ RegisterUpsert(c, agent_id)
    \/ UpdateInit(c) \/ UpdateWrite(c) \/ UpdateLog(c)
    \/ RegisterGet(c) \/ RegisterInit(c)

(* ------------------------------ specifications ------------------------- *)
InitStreams ==
    /\ market_ticks = <<>>
    /\ agent_proposals = <<>>
    /\ execution_actions = <<>>
    /\ audit_events = <<>>
    /\ exec_log = <<>>
    /\ faults = 0
    /\ first_read = <<>>

MgrOff ==
    /\ mgr_pc = "off" /\ mgr_last_id = Dollar /\ mgr_resp = <<>>
    /\ mgr_gather = {} /\ tasks = <<>>

GovOff == gov_pc = "off" /\ gov_last_id = Dollar /\ gov_resp = <<>>

ExecOff == exec_pc = "off" /\ exec_last_id = Dollar /\ exec_resp = <<>>

\* The gateway's listener is not running.
ApiOff == api_pc = "off" /\ api_resp = <<>> /\ last_ids = <<>>

\* manager = ConnectionManager(): no connection, no broadcast under way.
ConnInit ==
    /\ active = {}
    /\ ws_state = [w \in WebSockets |-> "new"]
    /\ recv = [w \in WebSockets |-> <<>>]
    /\ bc_pc = "idle" /\ bc_message = 0
    /\ bc_snapshot = {} /\ bc_to_remove = {}

\* No table has a row and no call of db_client is under way.
DbInit ==
    /\ agents = {}
    /\ agent_reputation = <<>>
    /\ reputation_history = <<>>
    /\ db_pc = [c \in Callers |-> "idle"]
    /\ db_call = [c \in Callers |-> NoCall]
    /\ db_calls = 0

\* The replay player is not running.
FeedOff ==
    /\ feed_pc = "off" /\ feed_file = <<>> /\ feed_df = <<>>
    /\ feed_prev_ts = <<>> /\ feed_realtime = FALSE

\* last_id = "$" before the loop of each consumer.
MgrStart == mgr_pc = "poll" /\ mgr_last_id = Dollar /\ mgr_resp = <<>>
               /\ mgr_gather = {} /\ tasks = <<>>

\* Mutant of GovStart: the evaluator starts at the beginning of its topic.
GovStart_FromBeginning == gov_pc = "poll" /\ gov_last_id = 0 /\ gov_resp = <<>>

GovStart == gov_pc = "poll" /\ gov_last_id = Dollar /\ gov_resp = <<>>

ExecStart == exec_pc = "poll" /\ exec_last_id = Dollar /\ exec_resp = <<>>

GovStep ==
    \/ GovRead \/ GovTimeout \/ GovReadError
    \/ GovSkipNoData \/ GovDecodeError
    \/ GovEmitAction \/ GovEmitActionError
    \/ GovEmitAudit \/ GovEmitAuditError
    \/ GovBackoff

ExecStep ==
    \/ ExecRead \/ ExecTimeout \/ ExecReadError
    \/ ExecSkipNoData \/ ExecDecodeError
    \/ ExecApply \/ ExecEmitAudit \/ ExecEmitAuditThenRaise
    \/ ExecEmitAuditError
    \/ ExecBackoff

\* Policy evaluator alone, fed by producers of proposals.
InitGov ==
    /\ InitStreams /\ MgrOff /\ GovStart /\ ExecOff
    /\ ApiOff /\ ConnInit /\ FeedOff /\ DbInit

NextGov ==
    \/ \E d \in ProposalInputs : AppendProposal(d)
    \/ GovStep

SpecGov == InitGov /\ [][NextGov]_vars

\* Policy evaluator and execution applier together, fed with the proposals
\* the two agents build.  The evaluator appends only well-formed actions, so
\* the applier's steps for malformed entries are never enabled here.
InitPipe ==
    /\ InitStreams /\ MgrOff /\ GovStart /\ ExecStart
    /\ ApiOff /\ ConnInit /\ FeedOff /\ DbInit

NextPipe ==
    \/ \E d \in AgentProposalInputs : AppendProposal(d)
    \/ GovRead \/ GovTimeout \/ GovReadError
    \/ GovEmitAction \/ GovEmitActionError
    \/ GovEmitAudit \/ GovEmitAuditError
    \/ GovBackoff
    \/ ExecRead \/ ExecTimeout \/ ExecReadError
    \/ ExecApply \/ ExecEmitAudit \/ ExecEmitAuditError
    \/ ExecBackoff

SpecPipe == InitPipe /\ [][NextPipe]_vars

\* Execution applier alone, fed by producers of actions.
InitExec ==
    /\ InitStreams /\ MgrOff /\ GovOff /\ ExecStart
    /\ ApiOff /\ ConnInit /\ FeedOff /\ DbInit

NextExec ==
    \/ \E d \in ActionInputs : AppendAction(d)
    \/ ExecStep

SpecExec == InitExec /\ [][NextExec]_vars

\* Agent dispatcher and its agents, fed by producers of ticks.
InitMgr ==
    /\ InitStreams /\ MgrStart /\ GovOff /\ ExecOff
    /\ ApiOff /\ ConnInit /\ FeedOff /\ DbInit

NextMgr ==
    \/ \E d \in TickInputs : AppendTick(d)
    \/ MgrRead \/ MgrTimeout \/ MgrReadError
    \/ MgrNoData \/ MgrBadJson
    \/ MgrDispatch \/ MgrGatherDone \/ MgrGatherRaises
    \/ MgrBackoff
    \/ \E i \in 1..MaxTasks + 1 :
          \/ MarketOnTick(i) \/ RiskOnTick(i)
          \/ RiskOnTickRaises(i) \/ OnTickXAddError(i)

SpecMgr == InitMgr /\ [][NextMgr]_vars

\* The replay player alone, started on any input file in either mode.  The
\* player is one coroutine that runs to its end: its steps are taken fairly.
InitFeed ==
    /\ InitStreams /\ MgrOff /\ GovOff /\ ExecOff
    /\ ApiOff /\ ConnInit /\ DbInit
    /\ feed_pc = "load"
    /\ feed_file \in {FileRows(f) : f \in Files}
    /\ feed_df = <<>>
    /\ feed_prev_ts = <<>>
    /\ feed_realtime \in BOOLEAN

NextFeed ==
    \/ PlayerLoad \/ PlayerPace \/ PlayerPublish \/ PlayerPublishError
    \/ PlayerInterval

SpecFeed == InitFeed /\ [][NextFeed]_vars /\ WF_vars(NextFeed)

\* The connection manager with the handlers of its clients and a caller of
\* broadcast.
InitConn ==
    /\ InitStreams /\ MgrOff /\ GovOff /\ ExecOff
    /\ ApiOff /\ ConnInit /\ FeedOff /\ DbInit

NextConn ==
    \/ \E ws \in WebSockets :
          \/ HandlerConnect(ws) \/ ConnectAdd(ws)
          \/ ClientClose(ws) \/ HandlerDisconnect(ws)
          \/ BroadcastSend(ws) \/ BroadcastSendFails(ws)
    \/ BroadcastStart \/ BroadcastEnd

SpecConn == InitConn /\ [][NextConn]_vars

\* The gateway: its listener, the handlers of its clients, and the services
\* that append to the subscribed streams.  The listener never gets as far as
\* manager.broadcast (ApiEntryRaises), so no step of broadcast is enabled.
InitApi ==
    /\ InitStreams /\ MgrOff /\ GovOff /\ ExecOff
    /\ ApiStart /\ ConnInit /\ FeedOff /\ DbInit

NextApi ==
    \/ \E in \in GatewayInputs : Publish(in)
    \/ ApiRead \/ ApiTimeout \/ ApiReadError
    \/ ApiEntryRaises \/ ApiBackoff
    \/ \E ws \in WebSockets :
          \/ HandlerConnect(ws) \/ ConnectAdd(ws)
          \/ ClientClose(ws) \/ HandlerDisconnect(ws)

SpecApi == InitApi /\ [][NextApi]_vars

\* db_client called by two coroutines at once: the steps of their calls
\* interleave at every await.
InitDb ==
    /\ InitStreams /\ MgrOff /\ GovOff /\ ExecOff
    /\ ApiOff /\ ConnInit /\ FeedOff /\ DbInit

NextDb == \E c \in Callers : DbStep(c)

SpecDb == InitDb /\ [][NextDb]_vars

\* db_client called one call after the other: a call starts and runs only
\* while no other caller is inside a call.
NextDbSeq ==
    \E c \in Callers :
        /\ \A o \in Callers \ {c} : db_pc[o] = "idle"
        /\ DbStep(c)

SpecDbSeq == InitDb /\ [][NextDbSeq]_vars

(* ------------------------------ properties ----------------------------- *)
ProposalIds == 1..Len(agent_proposals)
ActionIds == 1..Len(execution_actions)
AuditIds == 1..Len(audit_events)

\* The proposal the evaluator is working on.
GovProposal == agent_proposals[Head(gov_resp)]

\* The evaluator appends the action of the proposal it is working on.
GovActionStep == gov_pc = "process" /\ gov_pc' = "audit"

\* The evaluator appends the audit event and moves its cursor to the entry.
GovAuditStep == gov_pc = "audit" /\ gov_pc' \in {"process", "poll"}

LastAction == execution_actions[Len(execution_actions)]

C2_OtherRejected ==
    [][ /\ (GovActionStep /\ GovProposal.type # "trade") =>
              /\ Len(execution_actions') = Len(execution_actions) + 1
              /\ SubSeq(execution_actions', 1, Len(execution_actions))
                    = execution_actions
              /\ execution_actions'[Len(execution_actions')].status = "rejected"
              /\ execution_actions'[Len(execution_actions')].proposal_id
                    = GovProposal.proposal_id
              /\ audit_events' = audit_events
        /\ (GovAuditStep /\ GovProposal.type # "trade") =>
              /\ audit_events' = Append(audit_events,
                    [event |-> "proposal_rejected", proposal |-> GovProposal])
              /\ execution_actions' = execution_actions
              /\ LastAction.status = "rejected"
              /\ LastAction.proposal_id = GovProposal.proposal_id
              /\ gov_last_id' = Head(gov_resp)
      ]_vars

C2_Witness ==
    /\ gov_last_id \in ProposalIds
    /\ agent_proposals[gov_last_id].fmt = "ok"
    /\ agent_proposals[gov_last_id].type = NoneVal
    /\ \E i \in ActionIds :
          /\ execution_actions[i].status = "rejected"
          /\ execution_actions[i].proposal_id
                = agent_proposals[gov_last_id].proposal_id
    /\ \E k \in AuditIds :
          audit_events[k] = [event |-> "proposal_rejected",
                             proposal |-> agent_proposals[gov_last_id]]

\* Actions in the action stream that reference proposal id pid.
ActionsOf(pid) ==
    {i \in ActionIds : execution_actions[i].fmt = "ok"
                        /\ execution_actions[i].proposal_id = pid}

\* C3: the action stream holds at most one Action per proposal id, and
\* exactly one for the proposal whose entry the evaluator's cursor has just
\* moved to.
C3_ExactlyOneAction ==
    \A e \in ProposalIds :
        (agent_proposals[e].fmt = "ok" /\ agent_proposals[e].proposal_id # NoKey) =>
            /\ Cardinality(ActionsOf(agent_proposals[e].proposal_id)) <= 1
            /\ (gov_last_id = e) =>
                  Cardinality(ActionsOf(agent_proposals[e].proposal_id)) = 1

\* The proposal entry carrying proposal id pid.
ProposalOf(pid) ==
    CHOOSE e \in ProposalIds :
        agent_proposals[e].fmt = "ok" /\ agent_proposals[e].proposal_id = pid

GovAuditIds ==
    {k \in AuditIds :
        audit_events[k].event \in {"proposal_approved", "proposal_rejected"}}

C5_WriteOrdering ==
    \A k \in AuditIds :
        /\ (k \in GovAuditIds) =>
              ActionsOf(audit_events[k].proposal.proposal_id) # {}
        /\ (audit_events[k].event = "action_executed") =>
              \E n \in 1..Len(exec_log) : exec_log[n] = audit_events[k].action

\* The append of an audit event has failed after its Action was written,
\* and the applier has executed an Action.
C5_Witness ==
    /\ gov_pc = "backoff"
    /\ \E i \in ActionIds :
          \A k \in GovAuditIds :
              audit_events[k].proposal.proposal_id
                  # execution_actions[i].proposal_id
    /\ \E k \in AuditIds : audit_events[k].event = "action_executed"

\* C10: when the evaluator (resp. the applier) has met a malformed entry and
\* leaves the batch, its cursor is at "$" or at an id from which the entry
\* cannot be read again.
GovMalformed ==
    /\ gov_pc = "process"
    /\ \/ GovProposal.fmt # "ok"
       \/ GovProposal.proposal_id = NoKey

ExecMalformed ==
    /\ exec_pc = "process"
    /\ execution_actions[Head(exec_resp)].fmt \in {"badjson", "nodata"}

C10_MalformedSkipped ==
    [][ /\ (GovMalformed /\ gov_pc' # "process") =>
              (gov_last_id' = Dollar \/ gov_last_id' >= Head(gov_resp))
        /\ (ExecMalformed /\ exec_pc' # "process") =>
              (exec_last_id' = Dollar \/ exec_last_id' >= Head(exec_resp))
      ]_vars

TickIds == 1..Len(market_ticks)
TaskIds == 1..Len(tasks)

\* C6: no tick is dispatched a second time to an agent, also after an
\* on_tick of that tick has raised.
C6_NoRedispatch ==
    \A i, j \in TaskIds :
        (tasks[i].agent = tasks[j].agent /\ tasks[i].entry = tasks[j].entry)
        => i = j

NegativePrice(tick) == tick.price_kind = "num" /\ tick.price < 0

RiskProposalIds == {e \in ProposalIds : agent_proposals[e].agent_id = "agent.risk.1"}

\* C7: the proposals appended by RiskAgent are exactly one per completed
\* on_tick on a tick with price < 0, each of type "halt" with priority 10;
\* an on_tick on a tick with price >= 0 appends nothing.
C7_RiskHalt ==
    /\ Cardinality(RiskProposalIds) =
          Cardinality({i \in TaskIds :
                          /\ tasks[i].agent = "RiskAgent"
                          /\ tasks[i].state = "done"
                          /\ NegativePrice(market_ticks[tasks[i].entry])})
    /\ \A e \in RiskProposalIds :
          agent_proposals[e].type = "halt" /\ agent_proposals[e].priority = 10

C7_Witness ==
    /\ \E i \in TaskIds :
          /\ tasks[i].agent = "RiskAgent" /\ tasks[i].state = "done"
          /\ NegativePrice(market_ticks[tasks[i].entry])
    /\ \E i \in TaskIds :
          /\ tasks[i].agent = "RiskAgent" /\ tasks[i].state = "done"
          /\ market_ticks[tasks[i].entry].price_kind = "num"
          /\ market_ticks[tasks[i].entry].price = 0
    /\ RiskProposalIds # {}

\* C8: every tick read by the dispatcher gives rise to exactly one "trade"
\* proposal of priority 5, so there are never more such proposals than
\* well-formed ticks in the tick stream.
TradeProposalIds ==
    {e \in ProposalIds : agent_proposals[e].type = "trade"
                          /\ agent_proposals[e].priority = 5}

C8_OneTradePerTick ==
    Cardinality(TradeProposalIds)
        <= Cardinality({e \in TickIds : market_ticks[e].fmt = "ok"})

\* C9: when the dispatcher meets a tick whose payload is not valid JSON no
\* agent is invoked, and when it leaves the batch its cursor is at "$" or at
\* an id from which the entry cannot be read again.
C9_BadJsonSkipped ==
    [][ (/\ mgr_pc = "process"
         /\ market_ticks[Head(mgr_resp)].fmt = "badjson"
         /\ mgr_pc' # "process") =>
            /\ tasks' = tasks
            /\ (mgr_last_id' = Dollar \/ mgr_last_id' >= Head(mgr_resp))
      ]_vars

(* ------------------------- delivery guarantees ------------------------- *)
\* The entries appended to the proposal topic after the evaluator issued its
\* first read.
GovAfterStart ==
    IF first_read = <<>> THEN {}
    ELSE {e \in ProposalIds : e > first_read[1]}

\* A proposal the evaluator turns into an action when it processes it.
WellFormed(p) == p.fmt = "ok" /\ p.proposal_id # NoKey

\* C11: at-least-once delivery.  When the evaluator waits in a blocking read
\* it has nothing left to process, so, as long as no substrate error was
\* raised, every well-formed entry appended to its topic after its first
\* read has been processed: an action carries its proposal id.
C11_NoEntryMissed ==
    (gov_pc = "blocked" /\ faults = 0) =>
        \A e \in GovAfterStart :
            WellFormed(agent_proposals[e]) =>
                ActionsOf(agent_proposals[e].proposal_id) # {}

\* C12: tail-only start.  Every entry delivered to the evaluator and the
\* proposal of every action it has appended were appended to the topic after
\* the evaluator issued its first read.
C12_TailOnlyStart ==
    /\ \A i \in 1..Len(gov_resp) : gov_resp[i] \in GovAfterStart
    /\ \A a \in ActionIds :
          \E e \in GovAfterStart :
              /\ WellFormed(agent_proposals[e])
              /\ agent_proposals[e].proposal_id = execution_actions[a].action_id

\* A proposal was in the topic before the first read and none of its kind
\* came later; a later proposal has been processed.
C12_Witness ==
    /\ first_read = <<1>>
    /\ WellFormed(agent_proposals[1])
    /\ ActionsOf(agent_proposals[1].proposal_id) = {}
    /\ gov_last_id = 2
    /\ Len(execution_actions) = 1

(* --------------------------- execution applier ------------------------- *)
\* The entries of the action topic that hold the action a.
EntriesOf(a) == {i \in ActionIds : execution_actions[i] = a}

\* The "action_executed" events of the audit topic that carry the action a.
ExecutedEventsOf(a) ==
    {k \in AuditIds : audit_events[k] = ExecAuditEvent(a)}

\* C13: the audit topic holds at most one "action_executed" event per entry
\* of the action topic: for every action, not more events carry it than
\* entries hold it.
C13_OneCompletionEvent ==
    \A i \in ActionIds :
        Cardinality(ExecutedEventsOf(execution_actions[i]))
            <= Cardinality(EntriesOf(execution_actions[i]))

\* The action the applier is working on.
ExecAction == execution_actions[Head(exec_resp)]

\* The lines of the execution log that hold the action a.
LogLinesOf(a) == {n \in 1..Len(exec_log) : exec_log[n] = a}

\* C19: for the entry it processes, whatever its status and whether or not
\* its line is in the log already, the applier appends one line holding the
\* action to the execution log; the log changes in no other step; and the
\* audit topic is then appended one event {action_executed, action} carrying
\* the action of the line written last.
C19_EffectThenEvent ==
    [][ /\ (exec_pc = "process" /\ exec_pc' = "audit") =>
              exec_log' = Append(exec_log, ExecAction)
        /\ exec_log' # exec_log => (exec_pc = "process" /\ exec_pc' = "audit")
        /\ (exec_pc = "audit" /\ audit_events' # audit_events) =>
              /\ audit_events' =
                    Append(audit_events,
                           [event |-> "action_executed", action |-> ExecAction])
              /\ exec_log[Len(exec_log)] = ExecAction
      ]_vars

\* A rejected action has been delivered again after the append of its event
\* had failed: its line is in the log twice, its event in the topic once.
C19_Witness ==
    \E i \in ActionIds :
        /\ execution_actions[i].fmt = "ok"
        /\ execution_actions[i].status = "rejected"
        /\ Cardinality(EntriesOf(execution_actions[i])) = 1
        /\ Cardinality(LogLinesOf(execution_actions[i])) = 2
        /\ Cardinality(ExecutedEventsOf(execution_actions[i])) = 1

(* ------------------------------- retries ------------------------------- *)
\* An append of the evaluator raises while it works on an entry.
GovAppendRaises ==
    /\ gov_pc \in {"process", "audit"}
    /\ gov_pc' = "backoff"
    /\ faults' = faults + 1

\* The entries a read from the cursor the evaluator is left with returns.
GovRetryBatch == XRead(agent_proposals', gov_last_id')

\* C18: when an append raises while the evaluator works on an entry, the
\* cursor is left as it was and the read the loop issues from it after the
\* backoff delivers that entry again, also when the entry is the first one
\* the evaluator has received.
C18_RetryRedelivers ==
    [][ GovAppendRaises =>
            /\ gov_last_id' = gov_last_id
            /\ \E i \in 1..Len(GovRetryBatch) :
                  GovRetryBatch[i] = Head(gov_resp)
      ]_vars

(* ---------------------------- replay player ---------------------------- *)
\* Successive entries of the tick topic carry timestamps that do not decrease.
TimestampsOrdered ==
    \A i, j \in TickIds :
        i < j => market_ticks[i].timestamp <= market_ticks[j].timestamp

\* Entry i of the tick topic was built from a row of the file, and no row
\* gave two entries.
OnePerRow ==
    /\ \A i \in TickIds :
          \E k \in 1..Len(feed_file) :
              market_ticks[i] = PublishedTick(feed_file[k])
    /\ \A i, j \in TickIds :
          market_ticks[i].size = market_ticks[j].size => i = j

\* C17: at every moment of a replay the entries appended so far stem from
\* distinct input rows and their timestamps do not decrease in the order of
\* the entry ids; when run_player has returned there are as many entries as
\* input rows; and every run ends, in either mode and for any order of the
\* rows in the file.
C17_ReplayOrdering ==
    /\ [](TimestampsOrdered /\ OnePerRow)
    /\ [](feed_pc = "done" => Len(market_ticks) = Len(feed_file))
    /\ <>(feed_pc \in {"done", "raised"})

\* A realtime replay of three rows that were not in timestamp order has
\* returned.
C17_Witness ==
    /\ feed_pc = "done"
    /\ feed_realtime
    /\ Len(feed_file) = 3
    /\ ~IsSorted(feed_file)
    /\ Len(market_ticks) = 3

(* ------------------------- connection manager -------------------------- *)
\* C16: disconnect is idempotent.  For the active set of every reachable
\* state and every connection, disconnecting twice gives the set that
\* disconnecting once gives, disconnecting a connection that is not
\* registered gives the same set, and no other connection is removed or
\* added.
C16_DisconnectIdempotent ==
    \A ws \in WebSockets :
        /\ Disconnect(Disconnect(active, ws), ws) = Disconnect(active, ws)
        /\ ws \notin active => Disconnect(active, ws) = active
        /\ \A other \in WebSockets \ {ws} :
              other \in Disconnect(active, ws) <=> other \in active

\* A connection has been disconnected twice, by a broadcast pass in which
\* its send failed and by its handler, and another one is still registered.
C16_Witness ==
    \E ws \in WebSockets :
        /\ bc_pc = "idle"
        /\ ws \in bc_to_remove
        /\ ws_state[ws] = "gone"
        /\ ws \notin active
        /\ active # {}

\* How many times the message of the pass was received on a connection.
Copies(ws) ==
    Cardinality({n \in 1..Len(recv[ws]) : recv[ws][n] = bc_message})

\* A send of the pass fails.
SendFailsStep ==
    /\ bc_pc = "send"
    /\ bc_to_remove' # bc_to_remove

\* broadcast returns to its caller.
PassReturns == bc_pc = "send" /\ bc_pc' = "idle"

\* C15: a failed send does not end the pass and the connection is noted for
\* removal; when broadcast returns, every connection of the snapshot has
\* failed or has received the message once, no connection whose send failed
\* is in the active set, and the connections it removes are those whose
\* send failed.
C15_FailureIsolated ==
    [][ /\ SendFailsStep =>
              /\ bc_pc' = "send"
              /\ \E ws \in bc_snapshot : bc_to_remove' = bc_to_remove \cup {ws}
        /\ PassReturns =>
              /\ \A ws \in bc_snapshot \ bc_to_remove : Copies(ws) = 1
              /\ active' \cap bc_to_remove = {}
              /\ active \ active' \subseteq bc_to_remove
      ]_vars

\* A pass over three connections has returned: the send to one failed and
\* it is no longer registered, the two others have the message and are
\* registered.
C15_Witness ==
    /\ bc_pc = "idle"
    /\ Cardinality(bc_snapshot) = 3
    /\ Cardinality(bc_to_remove) = 1
    /\ active = bc_snapshot \ bc_to_remove
    /\ \A ws \in active : Copies(ws) = 1

\* C20: while a pass is under way its snapshot does not change and the steps
\* of the pass leave the active set alone; the message reaches only
\* connections of the snapshot; when the pass returns the active set loses
\* the connections whose send failed and nothing else, so a connection
\* registered during the pass stays registered without the message.
C20_BroadcastSnapshot ==
    [][ /\ (bc_pc = "send" /\ bc_pc' = "send") =>
              /\ bc_snapshot' = bc_snapshot
              /\ (recv' # recv \/ bc_to_remove' # bc_to_remove) =>
                    active' = active
        /\ \A ws \in WebSockets :
              recv'[ws] # recv[ws] =>
                  /\ bc_pc = "send" /\ ws \in bc_snapshot
                  /\ recv'[ws] = Append(recv[ws], bc_message)
        /\ PassReturns =>
              /\ active' = active \ bc_to_remove
              /\ bc_to_remove \subseteq bc_snapshot
              /\ \A ws \in active \ bc_snapshot :
                    ws \in active' /\ Copies(ws) = 0
      ]_vars

\* A pass has returned during which one connection of the snapshot was
\* disconnected by its handler and another connection was registered: the
\* late one is registered and has not received the message, a third one has.
C20_Witness ==
    /\ bc_pc = "idle" /\ bc_message = 1
    /\ \E ws \in active \ bc_snapshot : Copies(ws) = 0
    /\ \E ws \in bc_snapshot \cap bc_to_remove : ws_state[ws] = "gone"
    /\ \E ws \in bc_snapshot \cap active : Copies(ws) = 1

(* --------------------------- gateway listener -------------------------- *)
\* The envelope of an entry the listener has read.
Envelope(e) ==
    [stream |-> e.stream, id |-> e.id, data |-> StreamOf(e.stream)[e.id]]

\* How many times the envelope of entry e was received on a connection
\* after the step.
EnvelopesAfter(ws, e) ==
    Cardinality({n \in 1..Len(recv'[ws]) : recv'[ws][n] = Envelope(e)})

\* The connections that are registered and open.
LiveConnections == {ws \in active : ws_state[ws] = "open"}

\* C14: when the listener is through with an entry it has read while some
\* connection is live, no error has reached its loop and every connection
\* that is registered and open has received the envelope of that entry
\* exactly once.
C14_FanOut ==
    [][ (api_pc = "process" /\ api_resp' # api_resp /\ LiveConnections # {}) =>
            /\ api_pc' # "backoff"
            /\ \A ws \in active :
                  ws_state[ws] = "open" =>
                      EnvelopesAfter(ws, Head(api_resp)) = 1
      ]_vars

\* C21: when the listener is through with an entry of a topic, the cursor of
\* that topic is the id of the entry and the cursors of the other topics are
\* as they were, so the next read cannot return the entry again.
C21_IndependentCursors ==
    [][ (api_pc = "process" /\ api_resp' # api_resp) =>
            last_ids' = [last_ids EXCEPT ![Head(api_resp).stream] =
                                             Head(api_resp).id]
      ]_vars

(* ------------------------------- ordering ------------------------------ *)
\* The ids of a batch increase and lie after the cursor.
BatchOrdered(resp, last_id) ==
    /\ \A i, j \in 1..Len(resp) : i < j => resp[i] < resp[j]
    /\ \A i \in 1..Len(resp) : last_id = Dollar \/ resp[i] > last_id

\* The same for the listener's batch, topic by topic.
ApiBatchOrdered ==
    /\ \A i, j \in 1..Len(api_resp) :
          (i < j /\ api_resp[i].stream = api_resp[j].stream)
              => api_resp[i].id < api_resp[j].id
    /\ \A i \in 1..Len(api_resp) :
          \/ last_ids[api_resp[i].stream] = Dollar
          \/ api_resp[i].id > last_ids[api_resp[i].stream]

\* A cursor stays or moves to a larger id.
CursorForward(last_id, next_id) ==
    \/ next_id = last_id
    \/ next_id # Dollar /\ (last_id = Dollar \/ next_id > last_id)

\* C22: per-topic ordering.  A cursor is the id of the last entry its
\* consumer has handled successfully.  The entries a consumer has still to
\* handle come in increasing id order and all lie after its cursor, so none
\* is handled after a larger id was handled successfully; and no cursor
\* moves backwards.
C22_PerTopicOrder ==
    /\ [](/\ BatchOrdered(gov_resp, gov_last_id)
          /\ BatchOrdered(mgr_resp, mgr_last_id)
          /\ BatchOrdered(exec_resp, exec_last_id)
          /\ ApiBatchOrdered)
    /\ [][ /\ CursorForward(gov_last_id, gov_last_id')
           /\ CursorForward(mgr_last_id, mgr_last_id')
           /\ CursorForward(exec_last_id, exec_last_id')
           /\ \A name \in DOMAIN last_ids :
                 CursorForward(last_ids[name], last_ids'[name])
         ]_vars

\* The evaluator handles entry 2 a second time, after an append for it has
\* failed; entry 1 was handled before.
C22_Witness ==
    /\ gov_pc = "process"
    /\ gov_last_id = 1
    /\ Head(gov_resp) = 2
    /\ faults = 1
    /\ WellFormed(agent_proposals[2])
    /\ agent_proposals[1].proposal_id # agent_proposals[2].proposal_id
    /\ ActionsOf(agent_proposals[2].proposal_id) # {}

(* ------------------------------ dispatcher ----------------------------- *)
\* The on_tick of the task awaits an append to the proposal stream.
AwaitsAppend(task) ==
    \/ task.agent = "MarketAgent"
    \/ RiskTriggers(market_ticks[task.entry])

\* C23: once the dispatcher's cursor stands on a tick or beyond it, no
\* on_tick task started for that tick, in any dispatch attempt, is still
\* waiting for its append.
C23_WaitsForAllAgents ==
    \A i \in TaskIds :
        (mgr_last_id # Dollar /\ tasks[i].entry <= mgr_last_id
            /\ AwaitsAppend(tasks[i]))
            => tasks[i].state # "pending"

(* ------------------------------ reputation ----------------------------- *)

\* The scores stored for an agent.
StoredScores(agent_id) == {agent_reputation[i].score : i \in RowsOf(agent_id)}

\* Steps of a call of update_agent_reputation by caller c.
UpdateCreates(c) ==
    db_call[c].fn = "update" /\ db_pc[c] = "init" /\ db_pc'[c] = "write"

UpdateWrites(c) == db_pc[c] = "write" /\ db_pc'[c] = "log"

UpdateLogs(c) == db_pc[c] = "log" /\ db_pc'[c] = "idle"

\* C24: no stored score is ever below 0; a call of update_agent_reputation
\* creates the row with score 100 when the agent has none, replaces the stored
\* score by max(0, stored score + delta), and appends one history row with
\* the score replaced, the score stored and the delta.
C24_ReputationFloor ==
    /\ [](\A i \in DOMAIN agent_reputation : agent_reputation[i].score >= 0)
    /\ [][\A c \in Callers :
            /\ UpdateCreates(c) =>
                  /\ RowsOf(db_call[c].agent_id) = {}
                  /\ StoredScores(db_call[c].agent_id)' = {INITIAL_SCORE}
            /\ UpdateWrites(c) =>
                  \E old \in StoredScores(db_call[c].agent_id) :
                      /\ StoredScores(db_call[c].agent_id) = {old}
                      /\ db_call[c].current = <<old>>
                      /\ StoredScores(db_call[c].agent_id)' =
                            {Max(0, old + db_call[c].score_delta)}
            /\ UpdateLogs(c) =>
                  \E new \in StoredScores(db_call[c].agent_id) :
                      /\ new = Max(0, db_call[c].current[1]
                                      + db_call[c].score_delta)
                      /\ reputation_history' =
                            Append(reputation_history,
                                   [agent_id |-> db_call[c].agent_id,
                                    old_score |-> db_call[c].current[1],
                                    new_score |-> new,
                                    delta |-> db_call[c].score_delta])
         ]_vars

\* Two updates of an agent never registered have returned; the second took
\* the score from 30 to the floor.
C24_Witness ==
    /\ \A c \in Callers : db_pc[c] = "idle"
    /\ agents = {}
    /\ Len(reputation_history) = 2
    /\ reputation_history[1].old_score = INITIAL_SCORE
    /\ reputation_history[2].agent_id = reputation_history[1].agent_id
    /\ reputation_history[2].old_score + reputation_history[2].delta < 0
    /\ reputation_history[2].new_score = 0
    /\ StoredScores(reputation_history[2].agent_id) = {0}

\* No call of db_client is under way.
DbQuiet == \A c \in Callers : db_pc[c] = "idle"

\* Steps of a call of register_agent by caller c.
RegisterSteps(c) == db_call[c].fn = "register" /\ db_pc'[c] # db_pc[c]

RegisterCreates(c) == db_call[c].fn = "register" /\ db_pc[c] = "init"

\* C25: between calls every registered agent has exactly one reputation row;
\* register_agent creates the row, with score 100, only for an agent that
\* has none, and leaves the rows of an agent that has one as they are.
C25_OneReputationRow ==
    /\ [](DbQuiet => \A a \in agents : Cardinality(RowsOf(a)) = 1)
    /\ [][\A c \in Callers :
            RegisterSteps(c) =>
                IF RegisterCreates(c)
                THEN /\ RowsOf(db_call[c].agent_id) = {}
                     /\ agent_reputation' =
                           Append(agent_reputation,
                                  [agent_id |-> db_call[c].agent_id,
                                   score |-> INITIAL_SCORE])
                ELSE agent_reputation' = agent_reputation
         ]_vars

\* One agent, registered twice and updated once in three calls, holds one
\* row with the score the update gave it.
C25_Witness ==
    /\ DbQuiet
    /\ db_calls = 3
    /\ Len(reputation_history) = 1
    /\ agents = {reputation_history[1].agent_id}
    /\ Len(agent_reputation) = 1
    /\ agent_reputation[1].agent_id = reputation_history[1].agent_id
    /\ agent_reputation[1].score = reputation_history[1].new_score
    /\ agent_reputation[1].score # INITIAL_SCORE

\* The reputation_history rows of an agent, oldest first.
HistoryOf(agent_id) ==
    SelectSeq(reputation_history, LAMBDA r : r.agent_id = agent_id)

RECURSIVE SumDeltas(_)
SumDeltas(rows) ==
    IF rows = <<>> THEN 0 ELSE Head(rows).delta + SumDeltas(Tail(rows))

\* C26: between calls, the score of an agent whose updates all had positive
\* deltas is the initial score plus the deltas of all its updates.
C26_NoLostUpdate ==
    \A a \in AgentIds :
        (/\ DbQuiet
         /\ Cardinality(RowsOf(a)) = 1
         /\ HistoryOf(a) # <<>>
         /\ \A k \in DOMAIN HistoryOf(a) : HistoryOf(a)[k].delta > 0)
        => StoredScores(a) = {INITIAL_SCORE + SumDeltas(HistoryOf(a))}

(* ------------------------------ per-entry cursor ----------------------- *)

\* A step of a consumer loop, given its position, cursor and batch before
\* and after the step: the entry worked on lies after the cursor; the step
\* that completes an entry moves the cursor to it; a failing step leaves the
\* cursor where it is; and a batch that is delivered holds no entry at or
\* before the cursor.
PerEntryStep(pc, last_id, resp, next_pc, next_id, next_resp) ==
    /\ pc \in {"process", "audit"} => Head(resp) > last_id
    /\ (pc = "audit" /\ next_pc \in {"poll", "process"}) => next_id = Head(resp)
    /\ (pc \in {"process", "audit"} /\ next_pc = "backoff") => next_id = last_id
    /\ (pc \in {"poll", "blocked"} /\ next_pc = "process") =>
          \A k \in DOMAIN next_resp : next_resp[k] > last_id

NamedAfter(a, p) ==
    /\ a.action_id = p.proposal_id
    /\ a.proposal_id = p.proposal_id
    /\ a.timestamp = p.timestamp

\* C28: every Action in the action stream has the proposal id of a proposal
\* in the proposal stream as its action id and that proposal's timestamp, so
\* the Actions of one proposal have the same action id.
C28_ActionIdIsProposalId ==
    /\ \A i \in ActionIds :
          \E j \in DOMAIN agent_proposals :
              /\ WellFormed(agent_proposals[j])
              /\ NamedAfter(execution_actions[i], agent_proposals[j])
    /\ \A i, j \in ActionIds :
          execution_actions[i].proposal_id = execution_actions[j].proposal_id
              => execution_actions[i].action_id = execution_actions[j].action_id

\* After a redelivery the second proposal has two Actions, both under its id.
C28_Witness ==
    /\ Len(agent_proposals) >= 2
    /\ WellFormed(agent_proposals[2])
    /\ Cardinality(ActionsOf(agent_proposals[2].proposal_id)) = 2
    /\ \A i \in ActionsOf(agent_proposals[2].proposal_id) :
          execution_actions[i].action_id = agent_proposals[2].proposal_id

====
